---------------------------- MODULE Spec2Model ----------------------------
(***************************************************************************)
(* A model of key-bot (src/bot.py): a Telegram bot that hands out          *)
(* single-use keys kept in a SQLite file.                                  *)
(*                                                                         *)
(* Texts are sequences of one-character strings.  An optional value that   *)
(* Python holds as None is the empty sequence here (no key is empty).      *)
(*                                                                         *)
(* Handlers are asyncio tasks (aiogram's polling starts one task per       *)
(* update).  A task is suspended on one await at a time; tasks[t].pc names *)
(* it.  One action of the model completes that await (its effect on the    *)
(* database, the conversation state or the chat happens) and runs the      *)
(* handler's synchronous code up to its next await.  aiosqlite.connect and *)
(* the closing of a connection or cursor touch no shared state and are     *)
(* folded into the neighbouring step; MemoryStorage's set_state and clear  *)
(* never suspend and run inside the step they follow.                      *)
(*                                                                         *)
(* Every store function opens its own connection.  SQLite serialises write *)
(* transactions (sqlite3 begins one before INSERT and DELETE and ends it   *)
(* at commit); a reader sees the committed tables only.  wtx is the        *)
(* uncommitted view of the one connection that holds the write lock.       *)
(***************************************************************************)
EXTENDS Integers, Sequences, FiniteSets, TLC

VARIABLES
    ADMIN_USER_ID,  \* line 18: read once from the environment
    keys,           \* table keys: committed rows [id, key_text]
    keys_seq,       \* AUTOINCREMENT counter of table keys
    issued_log,     \* table issued_log: committed rows [id, user_id, key_text, issued_at]
    log_seq,        \* AUTOINCREMENT counter of table issued_log
    wtx,            \* the open write transaction (NoTxn when none)
    fsm,            \* MemoryStorage: user id -> conversation state
    tasks,          \* handler tasks in flight, by slot
    reply,          \* the chat message sent last
    now,            \* the clock read by log_issued
    left,           \* updates the bot still receives
    hist,           \* history: what pops returned and what was logged, in order
    pure            \* input and result of a function applied on its own

vars == <<ADMIN_USER_ID, keys, keys_seq, issued_log, log_seq, wtx, fsm, tasks,
          reply, now, left, hist, pure>>

---------------------------------------------------------------------------
(* Bounds *)

\* updates the bot receives in one behaviour
MaxUpdates == 3
\* handler tasks in flight at once
MaxInFlight == 2
\* length of a text given to split_keys on its own
MaxTextLen == 5
\* updates the bot receives in one behaviour when it handles one at a time
MaxSeqUpdates == 5
\* presses of "get key" in one behaviour of SpecPops
NPops == 3
\* length of a key list given to add_keys on its own
MaxBatch == 2
\* store calls made on their own in one behaviour of SpecLog
MaxCalls == 4

---------------------------------------------------------------------------
(* Texts *)

None == <<>>

\* str.isspace for the characters of the model
IsSpace(c) == c \in {" ", "\n", "\t"}

\* the line boundaries of str.splitlines among the characters of the model
IsLineBreak(c) == c = "\n"

RECURSIVE lstrip(_)
lstrip(s) ==
    IF s = <<>> THEN <<>>
    ELSE IF IsSpace(Head(s)) THEN lstrip(Tail(s))
    ELSE s

RECURSIVE rstrip(_)
rstrip(s) ==
    IF s = <<>> THEN <<>>
    ELSE IF IsSpace(s[Len(s)]) THEN rstrip(SubSeq(s, 1, Len(s) - 1))
    ELSE s

\* str.strip()
strip(s) == rstrip(lstrip(s))

\* str.replace(sep, new) for a one-character sep
replace(s, sep, new) == [i \in 1..Len(s) |-> IF s[i] = sep THEN new ELSE s[i]]

\* str.splitlines(): the lines between line breaks; a text that ends in a
\* line break has no empty last line, and the empty text has no line
RECURSIVE splitlines_from(_, _)
splitlines_from(s, cur) ==
    IF s = <<>> THEN (IF cur = <<>> THEN <<>> ELSE <<cur>>)
    ELSE IF IsLineBreak(Head(s)) THEN <<cur>> \o splitlines_from(Tail(s), <<>>)
    ELSE splitlines_from(Tail(s), Append(cur, Head(s)))

splitlines(s) == splitlines_from(s, <<>>)

\* str.split() without argument: the runs of non-whitespace
RECURSIVE split_from(_, _)
split_from(s, cur) ==
    IF s = <<>> THEN (IF cur = <<>> THEN <<>> ELSE <<cur>>)
    ELSE IF IsSpace(Head(s))
         THEN (IF cur = <<>> THEN <<>> ELSE <<cur>>) \o split_from(Tail(s), <<>>)
    ELSE split_from(Tail(s), Append(cur, Head(s)))

split(s) == split_from(s, <<>>)

Range(seq) == {seq[i] : i \in 1..Len(seq)}

\* list(dict.fromkeys(xs)): the first occurrence of each element, in order
RECURSIVE fromkeys(_)
fromkeys(xs) ==
    IF xs = <<>> THEN <<>>
    ELSE LET init == SubSeq(xs, 1, Len(xs) - 1)
             last == xs[Len(xs)]
         IN  IF last \in Range(init) THEN fromkeys(init)
             ELSE Append(fromkeys(init), last)

RECURSIVE Concat(_)
Concat(xss) == IF xss = <<>> THEN <<>> ELSE Head(xss) \o Concat(Tail(xss))

SelectSeqNonEmpty(xs) == SelectSeq(xs, LAMBDA x : x # <<>>)

\* lines 125-130: the parts of the non-blank lines, before de-duplication
raw_keys(txt) ==
    LET lines     == splitlines(txt)
        raw_parts == SelectSeqNonEmpty([i \in 1..Len(lines) |-> strip(lines[i])])
        parts     == [i \in 1..Len(raw_parts) |->
                        SelectSeqNonEmpty(
                          LET ps == split(raw_parts[i])
                          IN  [j \in 1..Len(ps) |-> strip(ps[j])])]
    IN  Concat(parts)

\* split_keys without line 131's de-duplication
split_keys_keep_duplicates(text) ==
    IF text = <<>> THEN <<>>
    ELSE raw_keys(replace(replace(strip(text), ",", "\n"), ";", "\n"))

\* lines 119-131
split_keys(text) ==
    IF text = <<>> THEN <<>>
    ELSE LET txt == replace(replace(strip(text), ",", "\n"), ";", "\n")
         IN  fromkeys(raw_keys(txt))

---------------------------------------------------------------------------
(* The state *)

\* user ids that send updates; 0 is the id is_admin_user_id never accepts
Users == {0, 1, 2}

\* the values ADMIN_USER_ID takes: 0 (no admin) and one user id, which
\* stands for the number of line 18
AdminIds == {0, 1}

\* the slots of the handler tasks
Slots == DOMAIN tasks

\* "/start"
StartText == <<"/", "s", "t", "a", "r", "t">>

\* the texts of the messages users send to the bot
Texts == { StartText,
           <<"a", ",", "a", ";", "b">>,
           <<" ", ",">> }

\* a message: message.text is None when has_text is FALSE
Messages == {[has_text |-> FALSE, text |-> None]}
            \cup {[has_text |-> TRUE, text |-> t] : t \in Texts}

\* line 112-113: the conversation states; NoState is aiogram's None
NoState == "none"
waiting_for_keys == "AddKeysFlow:waiting_for_keys"

NoReply == [to |-> 0, kind |-> "nothing", key_text |-> None, cnt |-> 0, kb |-> "none"]

\* lines 95-109: the keyboard sent with a message
main_keyboard(is_admin) == IF is_admin THEN "admin" ELSE "user"

\* a chat message: kind names the fixed text (the four denials have
\* different texts), key_text and cnt what is put into it, kb the keyboard
\* ("none" when the message has no reply_markup)
Msg(to, kind, key_text, cnt, kb) ==
    [to |-> to, kind |-> kind, key_text |-> key_text, cnt |-> cnt, kb |-> kb]

NoTxn == [owner |-> 0, keys |-> {}, keys_seq |-> 0, issued_log |-> {}, log_seq |-> 0]

Free == [handler |-> "none", pc |-> "free", user |-> 0, keys |-> <<>>, i |-> 0,
         key_id |-> 0, key_text |-> None, ts |-> 0, cnt |-> 0, out |-> NoReply]

NoPure == [fn |-> "none"]

\* is_admin_user_id without the comparison of the user id
is_admin_user_id_any_user(user_id) == ADMIN_USER_ID # 0

\* is_admin_user_id without the test of ADMIN_USER_ID against 0
is_admin_user_id_zero_allowed(user_id) == user_id = ADMIN_USER_ID

\* lines 116-117
is_admin_user_id(user_id) == ADMIN_USER_ID # 0 /\ user_id = ADMIN_USER_ID

\* the tables a connection reads: the committed ones, or its own
\* transaction's while it holds one
View(t) ==
    IF wtx.owner = t THEN wtx
    ELSE [owner |-> t, keys |-> keys, keys_seq |-> keys_seq,
          issued_log |-> issued_log, log_seq |-> log_seq]

\* a connection may write when no other connection holds the write lock
CanWrite(t) == wtx.owner \in {0, t}

\* INSERT without OR IGNORE on a table without the UNIQUE constraint
InsertAlways(v, k) ==
    [v EXCEPT !.keys = @ \cup {[id |-> v.keys_seq + 1, key_text |-> k]},
              !.keys_seq = @ + 1]

\* line 53: INSERT OR IGNORE INTO keys (key_text) VALUES (k)
InsertOrIgnore(v, k) ==
    IF \E r \in v.keys : r.key_text = k THEN v
    ELSE [v EXCEPT !.keys = @ \cup {[id |-> v.keys_seq + 1, key_text |-> k]},
                   !.keys_seq = @ + 1]

\* line 66: DELETE FROM keys WHERE id = key_id
DeleteKey(v, key_id) == [v EXCEPT !.keys = {r \in @ : r.id # key_id}]

\* line 79: INSERT INTO issued_log (user_id, key_text, issued_at)
InsertLog(v, user_id, key_text, ts) ==
    [v EXCEPT !.issued_log = @ \cup {[id |-> v.log_seq + 1, user_id |-> user_id,
                                      key_text |-> key_text, issued_at |-> ts]},
              !.log_seq = @ + 1]

\* get_last_issued with ORDER BY id ASC
FirstRowOf(log, user_id) ==
    LET rows == {r \in log : r.user_id = user_id}
    IN  IF rows = {} THEN [id |-> 0, user_id |-> user_id, key_text |-> None, issued_at |-> 0]
        ELSE CHOOSE r \in rows : \A q \in rows : q.id >= r.id

\* lines 84-92: SELECT ... WHERE user_id = ? ORDER BY id DESC LIMIT 1; the
\* row; with no row of the user, a row whose key_text is None
LastRowOf(log, user_id) ==
    LET rows == {r \in log : r.user_id = user_id}
    IN  IF rows = {} THEN [id |-> 0, user_id |-> user_id, key_text |-> None, issued_at |-> 0]
        ELSE CHOOSE r \in rows : \A q \in rows : q.id <= r.id

get_last_issued(user_id) == LastRowOf(issued_log, user_id)

\* lines 72-74: SELECT COUNT(*) FROM keys
CountRows == Cardinality(keys)

\* the index of the next key of the loop of lines 49-53 that is not blank,
\* from index i on; Len(ks) + 1 when there is none
RECURSIVE NextKey(_, _)
NextKey(ks, i) ==
    IF i > Len(ks) THEN Len(ks) + 1
    ELSE IF strip(ks[i]) # <<>> THEN i
    ELSE NextKey(ks, i + 1)

\* the slot a new task gets
FreeSlot == CHOOSE t \in Slots : tasks[t] = Free /\ \A q \in Slots : tasks[q] = Free => t <= q

HasFreeSlot == \E t \in Slots : tasks[t] = Free

---------------------------------------------------------------------------
(* Initial states *)

\* the keys table the bot finds in keys.db when it starts: none (line 30
\* creates it), or the one an earlier run left
InitPools == { {}, {[id |-> 1, key_text |-> <<"a">>]} }

InitStore(pool, n) ==
    /\ keys = pool
    /\ keys_seq = Cardinality(pool)
    /\ issued_log = {}
    /\ log_seq = 0
    /\ wtx = NoTxn
    /\ now = 1
    /\ hist = <<>>
    /\ reply = NoReply
    /\ fsm = [u \in Users |-> NoState]
    /\ left = n

Init ==
    /\ ADMIN_USER_ID \in AdminIds
    /\ \E pool \in InitPools : InitStore(pool, MaxUpdates)
    /\ tasks = [t \in 1..MaxInFlight |-> Free]
    /\ pure = NoPure

---------------------------------------------------------------------------
(* Steps shared by the handlers *)

db == <<keys, keys_seq, issued_log, log_seq>>

SetTask(t, task) == tasks' = [tasks EXCEPT ![t] = task]

\* the task of a handler that has just been given update of user u
NewTask(handler, u) == [Free EXCEPT !.handler = handler, !.user = u]

\* suspend on message.answer(out)
Answering(task, out) == [task EXCEPT !.pc = "answer", !.out = out]

\* db.commit(): the transaction's tables become the committed ones
Commit(t) ==
    /\ keys' = View(t).keys
    /\ keys_seq' = View(t).keys_seq
    /\ issued_log' = View(t).issued_log
    /\ log_seq' = View(t).log_seq
    /\ wtx' = IF wtx.owner = t THEN NoTxn ELSE wtx

Event(op, user, id, key_text) == [op |-> op, user |-> user, id |-> id, key_text |-> key_text]

\* lines 45-48: add_keys is entered; it suspends on the first INSERT, on
\* the commit when every key is blank, or in count_keys when keys is empty
enter_add_keys(task, ks) ==
    [task EXCEPT !.keys = ks,
                 !.i = NextKey(ks, 1),
                 !.pc = IF ks = <<>> THEN "count_select"
                        ELSE IF NextKey(ks, 1) <= Len(ks) THEN "add_insert"
                        ELSE "add_commit"]

\* lines 205-207: add_keys has returned total to add_keys_collect
after_add_keys(task, total) ==
    IF task.handler = "add_keys_collect"
    THEN Answering([task EXCEPT !.cnt = total],
                   Msg(task.user, "done", None, total, main_keyboard(TRUE)))
    ELSE Free

\* add_keys_collect without line 206: the state is kept after add_keys
keep_state_after_add_keys(task) == fsm' = fsm

\* line 206: state.clear() after add_keys
clear_after_add_keys(task) ==
    fsm' = IF task.handler = "add_keys_collect"
           THEN [fsm EXCEPT ![task.user] = NoState]
           ELSE fsm

\* what a store function called on its own returned last
Ret(task, key_text, cnt) ==
    [handler |-> task.handler, user |-> task.user, key_text |-> key_text, cnt |-> cnt]

\* the handlers of the bot; any other task is a store function called on
\* its own, whose result goes to pure when it returns
IsHandler(task) ==
    task.handler \in {"start", "cb_get_year_key", "cb_remaining", "cb_last_issued",
                      "cb_add_keys_begin", "add_keys_collect"}

Returns(task, key_text, cnt) ==
    pure' = IF IsHandler(task) THEN pure ELSE [pure EXCEPT !.ret = Ret(task, key_text, cnt)]

\* lines 76-77: log_issued is entered: it reads the clock and suspends on
\* its INSERT
enter_log_issued(task, user_id, key_text) ==
    [task EXCEPT !.user = user_id, !.key_text = key_text, !.ts = now, !.pc = "log_insert"]

---------------------------------------------------------------------------
(* Updates *)

CanReceive == left > 0 /\ HasFreeSlot

\* a message no handler's filter accepts is dropped
Unhandled(u, m) ==
    /\ CanReceive
    /\ ~(m.has_text /\ m.text = StartText)
    /\ fsm[u] # waiting_for_keys
    /\ left' = left - 1
    /\ UNCHANGED <<ADMIN_USER_ID, db, wtx, fsm, tasks, reply, now, hist, pure>>

\* lines 139-146: F.text == "/start", the first handler of the router
start(u, m) ==
    /\ CanReceive
    /\ m.has_text /\ m.text = StartText
    /\ SetTask(FreeSlot, Answering(NewTask("start", u),
                 Msg(u, "welcome", None, 0, main_keyboard(is_admin_user_id(u)))))
    /\ left' = left - 1
    /\ UNCHANGED <<ADMIN_USER_ID, db, wtx, fsm, reply, now, hist, pure>>

\* add_keys_collect with state.clear() before the return of line 204
add_keys_collect_clears_on_retry(u, m) ==
    /\ CanReceive
    /\ ~(m.has_text /\ m.text = StartText)
    /\ fsm[u] = waiting_for_keys
    /\ LET text == strip(IF m.has_text THEN m.text ELSE <<>>)
           ks   == split_keys(text)
           task == NewTask("add_keys_collect", u)
       IN  IF ~is_admin_user_id(u) \/ ks = <<>>
           THEN /\ fsm' = [fsm EXCEPT ![u] = NoState]
                /\ SetTask(FreeSlot, Answering(task,
                             IF ~is_admin_user_id(u)
                             THEN Msg(u, "denied_collect", None, 0, main_keyboard(FALSE))
                             ELSE Msg(u, "retry", None, 0, "none")))
           ELSE /\ fsm' = fsm
                /\ SetTask(FreeSlot, enter_add_keys(task, ks))
    /\ left' = left - 1
    /\ UNCHANGED <<ADMIN_USER_ID, db, wtx, reply, now, hist, pure>>

\* lines 194-205: a message that is not "/start" from a user whose state
\* is waiting_for_keys, up to the first await
add_keys_collect(u, m) ==
    /\ CanReceive
    /\ ~(m.has_text /\ m.text = StartText)
    /\ fsm[u] = waiting_for_keys
    /\ LET text == strip(IF m.has_text THEN m.text ELSE <<>>)
           ks   == split_keys(text)
           task == NewTask("add_keys_collect", u)
       IN  IF ~is_admin_user_id(u)
           THEN /\ fsm' = [fsm EXCEPT ![u] = NoState]
                /\ SetTask(FreeSlot, Answering(task,
                             Msg(u, "denied_collect", None, 0, main_keyboard(FALSE))))
           ELSE IF ks = <<>>
           THEN /\ fsm' = fsm
                /\ SetTask(FreeSlot, Answering(task, Msg(u, "retry", None, 0, "none")))
           ELSE /\ fsm' = fsm
                /\ SetTask(FreeSlot, enter_add_keys(task, ks))
    /\ left' = left - 1
    /\ UNCHANGED <<ADMIN_USER_ID, db, wtx, reply, now, hist, pure>>

---------------------------------------------------------------------------
(* Button presses.  callback.answer() only stops the button's spinner: the
   step of a button press runs the handler through it, up to the await that
   follows. *)

\* lines 148-154: GET_YEAR_KEY
cb_get_year_key(u) ==
    /\ CanReceive
    /\ LET task == NewTask("cb_get_year_key", u)
       IN  SetTask(FreeSlot, IF ~is_admin_user_id(u)
                             THEN Answering(task, Msg(u, "denied_get_key", None, 0,
                                                      main_keyboard(FALSE)))
                             ELSE [task EXCEPT !.pc = "pop_select"])
    /\ left' = left - 1
    /\ UNCHANGED <<ADMIN_USER_ID, db, wtx, fsm, reply, now, hist, pure>>

\* lines 164-167: REMAINING
cb_remaining(u) ==
    /\ CanReceive
    /\ SetTask(FreeSlot, [NewTask("cb_remaining", u) EXCEPT !.pc = "count_select"])
    /\ left' = left - 1
    /\ UNCHANGED <<ADMIN_USER_ID, db, wtx, fsm, reply, now, hist, pure>>

\* cb_last_issued without the check of lines 174-176
cb_last_issued_unchecked(u) ==
    /\ CanReceive
    /\ SetTask(FreeSlot, [NewTask("cb_last_issued", u) EXCEPT !.pc = "last_select"])
    /\ left' = left - 1
    /\ UNCHANGED <<ADMIN_USER_ID, db, wtx, fsm, reply, now, hist, pure>>

\* lines 171-177: LAST_ISSUED
cb_last_issued(u) ==
    /\ CanReceive
    /\ LET task == NewTask("cb_last_issued", u)
       IN  SetTask(FreeSlot, IF ~is_admin_user_id(u)
                             THEN Answering(task, Msg(u, "denied_last_issued", None, 0,
                                                      main_keyboard(FALSE)))
                             ELSE [task EXCEPT !.pc = "last_select"])
    /\ left' = left - 1
    /\ UNCHANGED <<ADMIN_USER_ID, db, wtx, fsm, reply, now, hist, pure>>

\* cb_add_keys_begin without the check of lines 188-190
cb_add_keys_begin_unchecked(u) ==
    /\ CanReceive
    /\ fsm' = [fsm EXCEPT ![u] = waiting_for_keys]
    /\ SetTask(FreeSlot, Answering(NewTask("cb_add_keys_begin", u),
                                   Msg(u, "prompt", None, 0, "none")))
    /\ left' = left - 1
    /\ UNCHANGED <<ADMIN_USER_ID, db, wtx, reply, now, hist, pure>>

\* lines 185-192: ADD_KEYS
cb_add_keys_begin(u) ==
    /\ CanReceive
    /\ LET task == NewTask("cb_add_keys_begin", u)
       IN  IF ~is_admin_user_id(u)
           THEN /\ fsm' = fsm
                /\ SetTask(FreeSlot, Answering(task, Msg(u, "denied_add_keys", None, 0,
                                                         main_keyboard(FALSE))))
           ELSE /\ fsm' = [fsm EXCEPT ![u] = waiting_for_keys]
                /\ SetTask(FreeSlot, Answering(task, Msg(u, "prompt", None, 0, "none")))
    /\ left' = left - 1
    /\ UNCHANGED <<ADMIN_USER_ID, db, wtx, reply, now, hist, pure>>

\* message.answer(...): the message is sent and the handler returns
answer(t) ==
    /\ tasks[t].pc = "answer"
    /\ reply' = tasks[t].out
    /\ SetTask(t, Free)
    /\ UNCHANGED <<ADMIN_USER_ID, db, wtx, fsm, now, left, hist, pure>>

---------------------------------------------------------------------------
(* The store: each action is one statement executed on a connection *)

At(t, pc) == tasks[t].pc = pc

\* pop_select without the check of lines 155-157: the None that
\* pop_random_key returns is logged as a key
pop_select_unchecked(t) ==
    /\ At(t, "pop_select")
    /\ IF keys = {}
       THEN /\ hist' = Append(hist, Event("pop", tasks[t].user, 0, None))
            /\ SetTask(t, enter_log_issued(tasks[t], tasks[t].user, None))
       ELSE /\ hist' = hist
            /\ \E row \in keys :
                 SetTask(t, [tasks[t] EXCEPT !.key_id = row.id,
                                             !.key_text = row.key_text,
                                             !.pc = "pop_delete"])
    /\ UNCHANGED <<ADMIN_USER_ID, db, wtx, fsm, reply, now, left, pure>>

\* lines 61-65, 155-157: SELECT id, key_text FROM keys ORDER BY RANDOM()
\* LIMIT 1; with no row pop_random_key returns None
pop_select(t) ==
    /\ At(t, "pop_select")
    /\ IF keys = {}
       THEN /\ hist' = Append(hist, Event("pop", tasks[t].user, 0, None))
            /\ SetTask(t, Answering(tasks[t], Msg(tasks[t].user, "empty", None, 0,
                                                  main_keyboard(TRUE))))
       ELSE /\ hist' = hist
            /\ \E row \in keys :
                 SetTask(t, [tasks[t] EXCEPT !.key_id = row.id,
                                             !.key_text = row.key_text,
                                             !.pc = "pop_delete"])
    /\ UNCHANGED <<ADMIN_USER_ID, db, wtx, fsm, reply, now, left, pure>>

\* line 66: DELETE FROM keys WHERE id = key_id, which begins a transaction
pop_delete(t) ==
    /\ At(t, "pop_delete")
    /\ CanWrite(t)
    /\ wtx' = DeleteKey(View(t), tasks[t].key_id)
    /\ SetTask(t, [tasks[t] EXCEPT !.pc = "pop_commit"])
    /\ UNCHANGED <<ADMIN_USER_ID, db, fsm, reply, now, left, hist, pure>>

\* lines 67-68, 158: commit; pop_random_key returns key_text and the
\* handler enters log_issued
pop_commit(t) ==
    /\ At(t, "pop_commit")
    /\ Commit(t)
    /\ hist' = Append(hist, Event("pop", tasks[t].user, tasks[t].key_id, tasks[t].key_text))
    /\ SetTask(t, enter_log_issued(tasks[t], tasks[t].user, tasks[t].key_text))
    /\ now' = now + 1
    /\ UNCHANGED <<ADMIN_USER_ID, fsm, reply, left, pure>>

\* line 79: INSERT INTO issued_log, which begins a transaction
log_insert(t) ==
    /\ At(t, "log_insert")
    /\ CanWrite(t)
    /\ wtx' = InsertLog(View(t), tasks[t].user, tasks[t].key_text, tasks[t].ts)
    /\ SetTask(t, [tasks[t] EXCEPT !.pc = "log_commit"])
    /\ UNCHANGED <<ADMIN_USER_ID, db, fsm, reply, now, left, hist, pure>>

\* lines 80, 159-162: commit; the handler sends the key
log_commit(t) ==
    /\ At(t, "log_commit")
    /\ Commit(t)
    /\ hist' = Append(hist, Event("log", tasks[t].user, View(t).log_seq, tasks[t].key_text))
    /\ SetTask(t, IF tasks[t].handler = "cb_get_year_key"
                  THEN Answering(tasks[t], Msg(tasks[t].user, "key", tasks[t].key_text, 0,
                                               main_keyboard(TRUE)))
                  ELSE Free)
    /\ Returns(tasks[t], None, 0)
    /\ UNCHANGED <<ADMIN_USER_ID, fsm, reply, now, left>>

\* count_keys reading the rows of the open transaction of another
\* connection instead of the committed ones
count_select_uncommitted(t) ==
    /\ At(t, "count_select")
    /\ LET cnt == IF wtx.owner # 0 THEN Cardinality(wtx.keys) ELSE CountRows
       IN  /\ IF tasks[t].handler = "cb_remaining"
              THEN /\ SetTask(t, Answering([tasks[t] EXCEPT !.cnt = cnt],
                                   Msg(tasks[t].user, "remaining", None, cnt,
                                       main_keyboard(is_admin_user_id(tasks[t].user)))))
                   /\ fsm' = fsm
              ELSE /\ SetTask(t, after_add_keys(tasks[t], cnt))
                   /\ clear_after_add_keys(tasks[t])
           /\ Returns(tasks[t], None, cnt)
    /\ UNCHANGED <<ADMIN_USER_ID, db, wtx, reply, now, left, hist>>

\* lines 70-74: count_keys, called by cb_remaining (lines 167-169) and by
\* add_keys for an empty list (line 47)
count_select(t) ==
    /\ At(t, "count_select")
    /\ IF tasks[t].handler = "cb_remaining"
       THEN /\ SetTask(t, Answering([tasks[t] EXCEPT !.cnt = CountRows],
                            Msg(tasks[t].user, "remaining", None, CountRows,
                                main_keyboard(is_admin_user_id(tasks[t].user)))))
            /\ fsm' = fsm
       ELSE /\ SetTask(t, after_add_keys(tasks[t], CountRows))
            /\ clear_after_add_keys(tasks[t])
    /\ Returns(tasks[t], None, CountRows)
    /\ UNCHANGED <<ADMIN_USER_ID, db, wtx, reply, now, left, hist>>

\* lines 82-92, 177-183: get_last_issued and the reply of cb_last_issued
last_select(t) ==
    /\ At(t, "last_select")
    /\ LET last == get_last_issued(tasks[t].user)
           task == [tasks[t] EXCEPT !.key_text = last.key_text, !.ts = last.issued_at]
       IN  SetTask(t, IF tasks[t].handler # "cb_last_issued"
                      THEN Free
                      ELSE IF last.key_text = None
                      THEN Answering(task, Msg(task.user, "none_issued", None, 0,
                                               main_keyboard(TRUE)))
                      ELSE Answering(task, Msg(task.user, "last", last.key_text,
                                               last.issued_at, main_keyboard(TRUE))))
    /\ Returns(tasks[t], get_last_issued(tasks[t].user).key_text, 0)
    /\ UNCHANGED <<ADMIN_USER_ID, db, wtx, fsm, reply, now, left, hist>>

\* lines 49-53: the INSERT OR IGNORE of the next key that is not blank; the
\* first one begins a transaction
add_insert(t) ==
    /\ At(t, "add_insert")
    /\ CanWrite(t)
    /\ wtx' = InsertOrIgnore(View(t), strip(tasks[t].keys[tasks[t].i]))
    /\ LET j == NextKey(tasks[t].keys, tasks[t].i + 1)
       IN  SetTask(t, [tasks[t] EXCEPT !.i = j,
                                       !.pc = IF j <= Len(tasks[t].keys)
                                              THEN "add_insert" ELSE "add_commit"])
    /\ UNCHANGED <<ADMIN_USER_ID, db, fsm, reply, now, left, hist, pure>>

\* line 54
add_commit(t) ==
    /\ At(t, "add_commit")
    /\ Commit(t)
    /\ SetTask(t, [tasks[t] EXCEPT !.pc = "add_count"])
    /\ UNCHANGED <<ADMIN_USER_ID, fsm, reply, now, left, hist, pure>>

\* lines 55-57, 205-207: SELECT COUNT(*) FROM keys; add_keys returns it,
\* and add_keys_collect clears the state
add_count(t) ==
    /\ At(t, "add_count")
    /\ SetTask(t, after_add_keys(tasks[t], CountRows))
    /\ clear_after_add_keys(tasks[t])
    /\ Returns(tasks[t], None, CountRows)
    /\ UNCHANGED <<ADMIN_USER_ID, db, wtx, reply, now, left, hist>>

---------------------------------------------------------------------------
(* The bot *)

Step(t) ==
    \/ pop_select(t)
    \/ pop_delete(t)
    \/ pop_commit(t)
    \/ log_insert(t)
    \/ log_commit(t)
    \/ count_select(t)
    \/ last_select(t)
    \/ add_insert(t)
    \/ add_commit(t)
    \/ add_count(t)
    \/ answer(t)

Update(u) ==
    \/ \E m \in Messages : Unhandled(u, m)
    \/ \E m \in Messages : start(u, m)
    \/ \E m \in Messages : add_keys_collect(u, m)
    \/ cb_get_year_key(u)
    \/ cb_remaining(u)
    \/ cb_last_issued(u)
    \/ cb_add_keys_begin(u)

Next ==
    \/ \E u \in Users : Update(u)
    \/ \E t \in 1..MaxInFlight : Step(t)

Spec == Init /\ [][Next]_vars

---------------------------------------------------------------------------
(* The bot handling one update at a time *)

InitSeq ==
    /\ ADMIN_USER_ID \in AdminIds
    /\ \E pool \in InitPools : InitStore(pool, MaxSeqUpdates)
    /\ tasks = [t \in {1} |-> Free]
    /\ pure = NoPure

NextSeq ==
    \/ \E u \in Users : Update(u)
    \/ \E t \in {1} : Step(t)

SpecSeq == InitSeq /\ [][NextSeq]_vars

---------------------------------------------------------------------------
(* NPops presses of "get key" by the admin on a pool of fewer keys *)

\* the i-th key of a pool
PoolKey(i) == [j \in 1..i |-> "k"]

PoolOf(m) == {[id |-> i, key_text |-> PoolKey(i)] : i \in 1..m}

InitPops ==
    /\ ADMIN_USER_ID = 1
    /\ \E m \in 0..(NPops - 1) :
         /\ InitStore(PoolOf(m), NPops)
         /\ pure = [fn |-> "pop_random_key", m |-> m]
    /\ tasks = [t \in 1..NPops |-> Free]

NextPops ==
    \/ cb_get_year_key(ADMIN_USER_ID)
    \/ \E t \in 1..NPops :
         \/ pop_select(t)
         \/ pop_delete(t)
         \/ pop_commit(t)
         \/ log_insert(t)
         \/ log_commit(t)
         \/ answer(t)

SpecPops == InitPops /\ [][NextPops]_vars

---------------------------------------------------------------------------
(* Store functions called on their own *)

SeqsUpTo(S, n) == UNION {[1..k -> S] : k \in 0..n}

NoRet == [handler |-> "none", user |-> 0, key_text |-> None, cnt |-> 0]

\* the entries of the lists given to add_keys
Tokens == { <<"a">>, <<"b">>, <<" ", "a">>, <<" ">>, <<>> }

Batches == SeqsUpTo(Tokens, MaxBatch)

\* add_keys(first) and then add_keys(second) on an empty pool
InitAdd ==
    /\ ADMIN_USER_ID = 1
    /\ InitStore({}, 2)
    /\ tasks = [t \in {1} |-> Free]
    /\ \E first \in Batches, second \in Batches :
         pure = [fn |-> "add_keys", batches |-> <<first, second>>, ret |-> NoRet]

call_add_keys ==
    /\ CanReceive
    /\ SetTask(FreeSlot, enter_add_keys(NewTask("add_keys", 0),
                                        pure.batches[Len(pure.batches) - left + 1]))
    /\ left' = left - 1
    /\ UNCHANGED <<ADMIN_USER_ID, db, wtx, fsm, reply, now, hist, pure>>

NextAdd ==
    \/ call_add_keys
    \/ \E t \in {1} :
         \/ add_insert(t)
         \/ add_commit(t)
         \/ add_count(t)
         \/ count_select(t)

SpecAdd == InitAdd /\ [][NextAdd]_vars

\* the keys given to log_issued
LogKeys == { <<"a">>, <<"b">> }

\* the user ids given to log_issued and get_last_issued
LogUsers == {1, 2}

InitLog ==
    /\ ADMIN_USER_ID = 1
    /\ InitStore({}, MaxCalls)
    /\ tasks = [t \in 1..MaxInFlight |-> Free]
    /\ pure = [fn |-> "log_issued", ret |-> NoRet]

call_log_issued(u, k) ==
    /\ CanReceive
    /\ SetTask(FreeSlot, enter_log_issued(NewTask("log_issued", u), u, k))
    /\ now' = now + 1
    /\ left' = left - 1
    /\ UNCHANGED <<ADMIN_USER_ID, db, wtx, fsm, reply, hist, pure>>

call_get_last_issued(u) ==
    /\ CanReceive
    /\ SetTask(FreeSlot, [NewTask("get_last_issued", u) EXCEPT !.pc = "last_select"])
    /\ left' = left - 1
    /\ UNCHANGED <<ADMIN_USER_ID, db, wtx, fsm, reply, now, hist, pure>>

NextLog ==
    \/ \E u \in LogUsers, k \in LogKeys : call_log_issued(u, k)
    \/ \E u \in LogUsers : call_get_last_issued(u)
    \/ \E t \in 1..MaxInFlight :
         \/ log_insert(t)
         \/ log_commit(t)
         \/ last_select(t)

SpecLog == InitLog /\ [][NextLog]_vars

\* the characters of the texts given to split_keys
Chars == {"a", "A", ",", ";", "\n", " ", "\t"}

\* "a, b;c\nd e"
ExampleText == <<"a", ",", " ", "b", ";", "c", "\n", "d", " ", "e">>

InitSplit ==
    /\ ADMIN_USER_ID = 1
    /\ InitStore({}, 1)
    /\ tasks = [t \in {1} |-> Free]
    /\ \E text \in SeqsUpTo(Chars, MaxTextLen) \cup {ExampleText} :
         pure = [fn |-> "split_keys", text |-> text, keys |-> <<>>]

call_split_keys ==
    /\ left > 0
    /\ pure' = [pure EXCEPT !.keys = split_keys(pure.text)]
    /\ left' = left - 1
    /\ UNCHANGED <<ADMIN_USER_ID, db, wtx, fsm, tasks, reply, now, hist>>

SpecSplit == InitSplit /\ [][call_split_keys]_vars

---------------------------------------------------------------------------
(* Properties *)

\* the places of hist where pop_random_key returned a key
Popped == {i \in 1..Len(hist) : hist[i].op = "pop" /\ hist[i].key_text # None}

\* the places of hist where pop_random_key returned None
PoppedNone == {i \in 1..Len(hist) : hist[i].op = "pop" /\ hist[i].key_text = None}

Idle == \A t \in DOMAIN tasks : tasks[t] = Free

\* C1: no two calls of pop_random_key return the same stored key (the
\* same row of table keys), however the calls interleave.
C1_NoTwoPopsOfOneRow ==
    \A i \in Popped, j \in Popped : i # j => hist[i].id # hist[j].id

\* C2: once NPops presses of "get key" on a pool of m < NPops keys have
\* all been handled, exactly m pops returned a key, NPops - m returned
\* None, and the keys returned are pairwise different texts.
C2_ExactlyPoolSizeSucceed ==
    (left = 0 /\ Idle) =>
        /\ Cardinality(Popped) = pure.m
        /\ Cardinality(PoppedNone) = NPops - pure.m
        /\ \A i \in Popped, j \in Popped : i # j => hist[i].key_text # hist[j].key_text

\* C3: with one handler at a time, no key text is issued twice:
\* pop_random_key never returns a text it returned before, and issued_log
\* never holds two records of one key text.
C3_NoKeyTextIssuedTwice ==
    /\ \A i \in Popped, j \in Popped : i # j => hist[i].key_text # hist[j].key_text
    /\ \A r \in issued_log, q \in issued_log : r.id # q.id => r.key_text # q.key_text

\* C4: a key in the pool has never been issued: no key_text of table keys
\* is the key_text of a record of issued_log.
C4_PoolKeyNeverIssued ==
    \A r \in keys : \A q \in issued_log : q.key_text # r.key_text

\* the task in slot t takes a step from pc
Leaves(t, pc) == tasks[t].pc = pc /\ tasks'[t].pc # pc

\* C5: a pop that returns a key removes exactly that row, so the pool
\* loses one key; a pop that returns None leaves the pool as it is.
C5_PopRemovesOneKey ==
    [][\A t \in DOMAIN tasks :
         /\ Leaves(t, "pop_commit") =>
              /\ Cardinality(keys') = Cardinality(keys) - 1
              /\ keys' = keys \ {[id |-> tasks[t].key_id, key_text |-> tasks[t].key_text]}
         /\ (Leaves(t, "pop_select") /\ tasks'[t].pc = "answer") => keys' = keys]_vars

\* the task that takes the step, when the step is one of slot t
Acting(t) == IF tasks[t] = Free THEN tasks'[t] ELSE tasks[t]

\* C6: whatever a GET_YEAR_KEY handler of a user other than the admin
\* does, table keys and issued_log (and any open transaction) stay as they
\* are, and all the handler does is to send the permission-denied message.
C6_NonAdminGetKeyChangesNothing ==
    [][\A t \in DOMAIN tasks :
         (tasks'[t] # tasks[t] /\ Acting(t).handler = "cb_get_year_key"
                               /\ Acting(t).user # ADMIN_USER_ID) =>
             LET denied == Msg(Acting(t).user, "denied_get_key", None, 0, "user")
             IN  /\ keys' = keys /\ issued_log' = issued_log /\ wtx' = wtx
                 /\ tasks[t] = Free => (tasks'[t].pc = "answer" /\ tasks'[t].out = denied)
                 /\ tasks[t] # Free => (tasks'[t] = Free /\ reply' = denied)]_vars

\* a non-admin was denied a key while the pool held one
C6_Witness ==
    /\ ADMIN_USER_ID # 0
    /\ reply.kind = "denied_get_key" /\ reply.to # ADMIN_USER_ID
    /\ keys # {} /\ issued_log = {}

\* the messages that hold neither a key nor anything of issued_log
NoSecretKinds == {"nothing", "welcome", "remaining", "denied_get_key",
                  "denied_last_issued", "denied_add_keys", "denied_collect"}

\* C7: a message sent to a user other than the admin holds no key text and
\* nothing of the issuance history (at most the remaining count), and no
\* step of such a user's handler, nor a dropped message, changes table
\* keys, issued_log or any user's conversation state.
C7_NonAdminLearnsOnlyCount ==
    [][/\ reply'.to # ADMIN_USER_ID =>
            (reply'.key_text = None /\ reply'.kind \in NoSecretKinds)
       /\ \A t \in DOMAIN tasks :
            (tasks'[t] # tasks[t] /\ Acting(t).user # ADMIN_USER_ID) =>
                (keys' = keys /\ issued_log' = issued_log /\ wtx' = wtx /\ fsm' = fsm)
       /\ tasks' = tasks => (keys' = keys /\ issued_log' = issued_log /\ fsm' = fsm)]_vars

\* a non-admin was told a count above 0 while issued_log held a record
C7_Witness ==
    /\ ADMIN_USER_ID # 0
    /\ reply.kind = "remaining" /\ reply.to # ADMIN_USER_ID /\ reply.cnt > 0
    /\ issued_log # {}

\* the tokens of the two lists: their entries, trimmed, the blank ones left out
AddedTokens ==
    {strip(x) : x \in Range(pure.batches[1]) \cup Range(pure.batches[2])} \ {<<>>}

\* C8: after add_keys(first) and then add_keys(second) on an empty pool,
\* the pool holds exactly the distinct non-blank tokens of the two lists,
\* and the second call returned that number.
C8_TwoAddsCollapseDuplicates ==
    (left = 0 /\ Idle) =>
        /\ {r.key_text : r \in keys} = AddedTokens
        /\ Cardinality(keys) = Cardinality(AddedTokens)
        /\ pure.ret.cnt = Cardinality(AddedTokens)

\* both calls returned; a token came twice in the first list and again in
\* the second, which also brought a new one
C8_Witness ==
    /\ left = 0 /\ Idle
    /\ pure.ret.cnt = 2
    /\ \E i, j \in 1..Len(pure.batches[1]) :
         i # j /\ strip(pure.batches[1][i]) = strip(pure.batches[1][j])
               /\ strip(pure.batches[1][i]) \in {strip(x) : x \in Range(pure.batches[2])} \ {<<>>}

\* the separators of a key list
IsSep(c) == c \in {",", ";", "\n", " ", "\t"}

\* the maximal runs of non-separators of s, as <<first, last>>
Runs(s) ==
    {r \in (1..Len(s)) \X (1..Len(s)) :
        /\ r[1] <= r[2]
        /\ \A k \in r[1]..r[2] : ~IsSep(s[k])
        /\ r[1] = 1 \/ IsSep(s[r[1] - 1])
        /\ r[2] = Len(s) \/ IsSep(s[r[2] + 1])}

\* where token k is first seen in s
FirstSeen(s, k) ==
    CHOOSE i \in 1..Len(s) :
        /\ \E r \in Runs(s) : r[1] = i /\ SubSeq(s, r[1], r[2]) = k
        /\ \A r \in Runs(s) : SubSeq(s, r[1], r[2]) = k => i <= r[1]

\* ks lists the runs of s once each, in the order they are first seen
IsTokenList(s, ks) ==
    /\ Range(ks) = {SubSeq(s, r[1], r[2]) : r \in Runs(s)}
    /\ \A p, q \in 1..Len(ks) :
         p < q => (ks[p] # ks[q] /\ FirstSeen(s, ks[p]) < FirstSeen(s, ks[q]))

\* C9: split_keys returns the maximal runs of non-separator characters of
\* its text, each once, in first-seen order (so no token is empty and
\* texts that differ in case are different tokens); "a, b;c\nd e" gives
\* a, b, c, d, e.
C9_SplitKeysTokens ==
    left = 0 =>
        /\ IsTokenList(pure.text, pure.keys)
        /\ pure.text = ExampleText =>
             pure.keys = << <<"a">>, <<"b">>, <<"c">>, <<"d">>, <<"e">> >>

\* split_keys has been applied to a text with a repeated token, a token
\* that differs from it in case only, and three kinds of separator
C9_Witness ==
    /\ left = 0
    /\ pure.text = <<"a", ",", "A", "\n", "a">>
    /\ pure.keys = << <<"a">>, <<"A">> >>

\* the key logged last for user u in history h (None when none was)
LastLogged(h, u) ==
    LET at == {i \in 1..Len(h) : h[i].op = "log" /\ h[i].user = u}
    IN  IF at = {} THEN None
        ELSE h[CHOOSE i \in at : \A j \in at : j <= i].key_text

\* C10: get_last_issued(u) is the key of the record appended last for u,
\* whatever was appended for other users, and None when u has no record:
\* so it is after every step, and so is what a call returns.
C10_LastIssuedIsLastAppended ==
    [][/\ \A u \in Users : get_last_issued(u)'.key_text = LastLogged(hist', u)
       /\ \A t \in DOMAIN tasks :
            Leaves(t, "last_select") =>
                pure'.ret = Ret(tasks[t], LastLogged(hist, tasks[t].user), 0)]_vars

\* K1, a key for another user and then K2 were logged for u, and a call
\* of get_last_issued(u) returned K2
C10_Witness ==
    \E u \in LogUsers :
        /\ Len(hist) = 3
        /\ hist[1].user = u /\ hist[2].user # u /\ hist[3].user = u
        /\ hist[1].key_text # hist[3].key_text
        /\ pure.ret.handler = "get_last_issued" /\ pure.ret.user = u
        /\ pure.ret.key_text = hist[3].key_text

KeyTexts(ks) == {r.key_text : r \in ks}

\* the task the step creates
Created(t) == tasks[t] = Free /\ tasks'[t] # Free

\* C12: the keys add_keys_collect gives to add_keys are the tokens of the
\* submitted text, each once; when add_keys commits, every row of the pool
\* is kept and the pool gains one row for each of these tokens that it did
\* not hold ("a,a;b" on a pool without a and b adds 2 rows); and the total
\* of the reply is the size of the pool that add_keys reads after that
\* commit.
C12_SubmittedTokensAdded ==
    [][\A t \in DOMAIN tasks :
         /\ \A m \in Messages :
              (Created(t) /\ tasks'[t].pc # "answer"
                          /\ add_keys_collect(ADMIN_USER_ID, m)) =>
                  /\ m.has_text /\ tasks'[t].keys # <<>>
                  /\ IsTokenList(m.text, tasks'[t].keys)
         /\ (Leaves(t, "add_commit") /\ tasks[t].handler = "add_keys_collect") =>
              /\ keys \subseteq keys'
              /\ KeyTexts(keys') = KeyTexts(keys) \cup Range(tasks[t].keys)
              /\ Cardinality(keys') = Cardinality(keys)
                     + Cardinality(Range(tasks[t].keys) \ KeyTexts(keys))
         /\ (Leaves(t, "add_count") /\ tasks[t].handler = "add_keys_collect") =>
              /\ keys' = keys
              /\ tasks'[t].out = Msg(ADMIN_USER_ID, "done", None, Cardinality(keys), "admin")
         /\ (Leaves(t, "answer") /\ tasks[t].out.kind = "done") =>
              /\ keys' = keys
              /\ reply' = tasks[t].out]_vars

\* the admin submitted "a,a;b" on a pool without a and b and was told that
\* the pool holds 2 keys, which are a and b
C12_Witness ==
    /\ ADMIN_USER_ID # 0
    /\ reply = Msg(ADMIN_USER_ID, "done", None, 2, "admin")
    /\ KeyTexts(keys) = {<<"a">>, <<"b">>} /\ Cardinality(keys) = 2
    /\ issued_log = {} /\ hist = <<>>
    /\ Idle

\* C13: is_admin_user_id accepts exactly one user id, ADMIN_USER_ID, and
\* none at all when ADMIN_USER_ID is 0 (not even user id 0); with
\* ADMIN_USER_ID = 0 no step changes table keys, issued_log or a
\* conversation state or opens a transaction, nothing is popped or logged,
\* every user is without state, no task is inside pop_random_key, add_keys,
\* log_issued or get_last_issued, and no admin keyboard is sent.
C13_NoAdminDeniesAll ==
    [][/\ {u \in Users : is_admin_user_id(u)} = {ADMIN_USER_ID} \ {0}
       /\ ADMIN_USER_ID = 0 =>
            /\ keys' = keys /\ keys_seq' = keys_seq
            /\ issued_log' = issued_log /\ log_seq' = log_seq
            /\ wtx' = NoTxn /\ hist' = <<>>
            /\ \A u \in Users : fsm'[u] = NoState
            /\ \A t \in DOMAIN tasks :
                 /\ tasks'[t].pc \in {"free", "answer", "count_select"}
                 /\ tasks'[t].out.kb # "admin"
                 /\ tasks'[t].out.kind \in NoSecretKinds
            /\ reply'.kb # "admin"]_vars

\* no admin is configured; user 0 was denied "add keys" while the pool
\* held a key
C13_Witness ==
    /\ ADMIN_USER_ID = 0
    /\ reply = Msg(0, "denied_add_keys", None, 0, "user")
    /\ keys # {}
    /\ left = 0 /\ Idle

\* the step hands message m of user u to the router
Dispatched(u, m) == Unhandled(u, m) \/ start(u, m) \/ add_keys_collect(u, m)

\* message m of the admin, whose text has a token, is dispatched
AdminSendsKeyList(m) ==
    /\ m.has_text /\ split_keys(strip(m.text)) # <<>>
    /\ Dispatched(ADMIN_USER_ID, m)

\* the step creates task t for an update of the admin, whose state is
\* waiting_for_keys
AdminWaitingSends(t) ==
    /\ Created(t) /\ tasks'[t].user = ADMIN_USER_ID
    /\ is_admin_user_id(ADMIN_USER_ID)
    /\ fsm[ADMIN_USER_ID] = waiting_for_keys

\* the task created for m is add_keys_collect inside add_keys, called with
\* the tokens of m
InAddKeysWith(t, m) ==
    /\ tasks'[t].handler = "add_keys_collect"
    /\ tasks'[t].user = ADMIN_USER_ID
    /\ tasks'[t].pc = "add_insert"
    /\ tasks'[t].keys = split_keys(strip(m.text))
    /\ IsTokenList(m.text, tasks'[t].keys)

\* when add_keys returns to add_keys_collect the state is cleared and the
\* reply, sent in the next step, holds the total add_keys returned
AddKeysCollectFinishes(t) ==
    /\ (Leaves(t, "add_count") /\ tasks[t].handler = "add_keys_collect") =>
         /\ fsm' = [fsm EXCEPT ![tasks[t].user] = NoState]
         /\ tasks'[t].out = Msg(tasks[t].user, "done", None, Cardinality(keys), "admin")
         /\ tasks'[t].pc = "answer"
    /\ (Leaves(t, "answer") /\ tasks[t].out.kind = "done") =>
         /\ reply' = tasks[t].out /\ tasks'[t] = Free /\ fsm' = fsm

C15_UnrelatedActionResetsState ==
    [][\A t \in DOMAIN tasks :
         (Leaves(t, "answer") /\ fsm[tasks[t].user] = waiting_for_keys
            /\ tasks[t].handler \in {"cb_get_year_key", "cb_remaining",
                                     "cb_last_issued", "start"}) =>
             fsm'[tasks[t].user] = NoState]_vars

\* no token is parsed from message m: it has no text, or its text is
\* empty or holds separators and whitespace only
ZeroTokens(m) == split_keys(strip(IF m.has_text THEN m.text ELSE <<>>)) = <<>>

\* C16: a message without a token that the admin sends in waiting_for_keys
\* (no text, or separators and whitespace only) is taken by
\* add_keys_collect, which asks for a retry and does nothing else: in the
\* step that takes the message and in the step that sends the reply the
\* admin's state stays waiting_for_keys and table keys, issued_log and any
\* open transaction stay as they are.
C16_ZeroTokensRetry ==
    [][/\ (left' # left /\ tasks' = tasks /\ is_admin_user_id(ADMIN_USER_ID)
                        /\ fsm[ADMIN_USER_ID] = waiting_for_keys) =>
            \A m \in Messages : ZeroTokens(m) => ~Unhandled(ADMIN_USER_ID, m)
       /\ \A t \in DOMAIN tasks :
            LET retry == Msg(ADMIN_USER_ID, "retry", None, 0, "none")
            IN  /\ AdminWaitingSends(t) =>
                     \A m \in Messages :
                         (ZeroTokens(m) /\ Dispatched(ADMIN_USER_ID, m)) =>
                             /\ tasks'[t].handler = "add_keys_collect"
                             /\ tasks'[t].pc = "answer" /\ tasks'[t].out = retry
                             /\ fsm' = fsm
                             /\ keys' = keys /\ issued_log' = issued_log /\ wtx' = wtx
                /\ (Leaves(t, "answer") /\ tasks[t].out.kind = "retry") =>
                     /\ reply' = retry /\ tasks'[t] = Free
                     /\ fsm' = fsm
                     /\ keys' = keys /\ issued_log' = issued_log /\ wtx' = wtx]_vars

\* the admin, waiting for a key list, sent a message without a token, was
\* asked to send it again and is still waiting; nothing was added or issued
C16_Witness ==
    /\ ADMIN_USER_ID # 0
    /\ reply = Msg(ADMIN_USER_ID, "retry", None, 0, "none")
    /\ fsm[ADMIN_USER_ID] = waiting_for_keys
    /\ keys_seq = Cardinality(keys) /\ issued_log = {} /\ hist = <<>>
    /\ Idle

\* C17: ADMIN_USER_ID never changes; "add keys" pressed by another user is
\* answered with the permission-denied message and changes no state; so
\* every user but the admin is without state, before and after every
\* step; add_keys_collect runs for the admin only and its "not enough
\* rights" branch (lines 196-199) is never taken.
C17_OnlyAdminWaits ==
    [][/\ ADMIN_USER_ID' = ADMIN_USER_ID
       /\ \A u \in Users \ {ADMIN_USER_ID} : fsm[u] = NoState /\ fsm'[u] = NoState
       /\ reply'.kind # "denied_collect"
       /\ \A t \in DOMAIN tasks :
            /\ tasks'[t].out.kind # "denied_collect"
            /\ tasks'[t].handler = "add_keys_collect" => tasks'[t].user = ADMIN_USER_ID
            /\ (Created(t) /\ tasks'[t].handler = "cb_add_keys_begin"
                           /\ tasks'[t].user # ADMIN_USER_ID) =>
                 /\ fsm' = fsm
                 /\ tasks'[t].pc = "answer"
                 /\ tasks'[t].out = Msg(tasks'[t].user, "denied_add_keys", None, 0, "user")
            /\ (Leaves(t, "answer") /\ tasks[t].out.kind = "denied_add_keys") =>
                 (fsm' = fsm /\ reply' = tasks[t].out)]_vars

\* another user than the admin pressed "add keys" and was denied, while
\* the admin is waiting for a key list
C17_Witness ==
    /\ ADMIN_USER_ID # 0
    /\ reply.kind = "denied_add_keys" /\ reply.to \in Users \ {ADMIN_USER_ID}
    /\ fsm[ADMIN_USER_ID] = waiting_for_keys
    /\ fsm[reply.to] = NoState
    /\ Idle

\* the rows deleted from table keys so far: the rows it ever held, less
\* the rows it holds
Deleted == keys_seq - Cardinality(keys)

GetKeyInFlight == \E t \in DOMAIN tasks : tasks[t].handler = "cb_get_year_key"

\* C18: issued_log never holds more records than rows were deleted from
\* table keys, it holds as many when no "get key" handler is in flight,
\* and every record holds the text of a key that a pop returned.
C18_LogInStepWithPops ==
    /\ Cardinality(issued_log) <= Deleted
    /\ ~GetKeyInFlight => Cardinality(issued_log) = Deleted
    /\ \A r \in issued_log : \E i \in Popped : hist[i].key_text = r.key_text

\* the handlers of "remaining count", "last issued" and /start
ReadOnlyHandlers == {"cb_remaining", "cb_last_issued", "start"}

=============================================================================
